---- MODULE Spec2Model ----
(***************************************************************************)
(* Model of the command-line scripts of dfe-curriculum-ontology:           *)
(*   scripts/sanity_to_ttl.py, scripts/sanity_to_ttl_enhanced.py,          *)
(*   scripts/sanity_to_ttl_dynamic_subjects.py, scripts/merge_ttls.py,     *)
(*   scripts/validation.py and scripts/export_to_neo4j.py.                 *)
(*                                                                         *)
(* One process runs at a time.  A run starts with StartRun, which picks    *)
(* the entry point and its command-line flags, walks through the main()    *)
(* of that script and ends at pc = "done" with an exit code.  What         *)
(* survives a run is the Neo4j database (db) and the run-timestamp file    *)
(* (tsFile); everything else is reset by the next StartRun.                *)
(***************************************************************************)
EXTENDS Integers, Sequences, FiniteSets, TLC

\* Number of script runs in one behaviour.
MaxRuns == 2

\* Largest number of triples of a file added to the store before add raises.
MaxPartialAdd == 1

\* Longest name handed to camel_to_upper_snake on its own.
MaxNameLen == 4

\* Longest relationship type in a database handed to
\* _apply_camelcase_conversion on its own.
MaxTypeLen == 2

(***************************************************************************)
(* Entry points                                                            *)
(***************************************************************************)
SANITY   == "sanity_to_ttl"
ENHANCED == "sanity_to_ttl_enhanced"
DYNAMIC  == "sanity_to_ttl_dynamic_subjects"
MERGE    == "merge_ttls"
VALIDATE == "validation"
EXPORT   == "export_to_neo4j"

Scripts == {SANITY, ENHANCED, DYNAMIC, MERGE, VALIDATE, EXPORT}

\* scripts/.last-run-timestamp
TIMESTAMP_FILE == <<"scripts", ".last-run-timestamp">>

\* The Neo4j database named by NEO4J_URI, as a persistent store.
NEO4J_DB == <<"neo4j">>

NoArgs ==
    [clear |-> FALSE, api |-> FALSE, sample |-> FALSE,
     incremental |-> FALSE, dry_run |-> FALSE]

\* The flag combinations argparse (or sys.argv) can hand to each script.
ArgsOf(s) ==
    CASE s = ENHANCED ->
           { [NoArgs EXCEPT !.api = a, !.sample = sm, !.incremental = i, !.dry_run = d] :
               a \in BOOLEAN, sm \in BOOLEAN, i \in BOOLEAN, d \in BOOLEAN }
      [] s = SANITY   -> { [NoArgs EXCEPT !.api = a] : a \in BOOLEAN }
      [] s = EXPORT   -> { [NoArgs EXCEPT !.clear = c] : c \in BOOLEAN }
      [] OTHER        -> { NoArgs }

(***************************************************************************)
(* Sequences helpers                                                       *)
(***************************************************************************)
Range(s) == { s[i] : i \in 1..Len(s) }

\* Position of the first occurrence of e in s, 0 when absent.
IndexOf(s, e) ==
    IF e \in Range(s)
    THEN CHOOSE i \in 1..Len(s) : s[i] = e /\ \A j \in 1..(i-1) : s[j] # e
    ELSE 0

\* e1 occurs in s, and does so before the first occurrence of e2.
Before(s, e1, e2) == IndexOf(s, e1) > 0 /\ IndexOf(s, e1) < IndexOf(s, e2)

(***************************************************************************)
(* Input data of the converters                                            *)
(*   themes:   data['themes'] is present and non-empty                     *)
(*   subjects: what discover_subjects finds, sorted                        *)
(*   docs:     the subjects that have a document under data['subjects']    *)
(***************************************************************************)
NoData == [themes |-> FALSE, subjects |-> <<>>, docs |-> {}]

Datas ==
    { [themes |-> t, subjects |-> <<>>, docs |-> {}] : t \in BOOLEAN }
    \cup { [themes |-> t, subjects |-> <<"history">>, docs |-> {"history"}] : t \in BOOLEAN }
    \cup { [themes |-> t, subjects |-> <<"history", "science">>, docs |-> {"history"}] :
             t \in BOOLEAN }

\* Output paths, relative to OUTPUT_DIR for the converters.
PROGRAMME_TTL == <<"programme-structure.ttl">>
THEMES_TTL    == <<"themes.ttl">>

\* The files generate_subject_files writes for one subject, in order.
SubjectFiles(s) ==
    << <<"subjects", s, "subject.ttl">>,
       <<"subjects", s, "knowledge-taxonomy.ttl">>,
       <<"subjects", s, "schemes.ttl">> >>

Prefix(s, k) == SubSeq(s, 1, k)

(***************************************************************************)
(* Inputs of merge_ttls and validation                                     *)
(***************************************************************************)
OUTPUT_FILE == <<"/tmp", "combined-data.ttl">>

ROOT_DIRS == <<"ontology", "data">>

\* The .ttl files that may exist under a root directory, as path components
\* below the repository root, in the order sorted(rglob("*.ttl")) yields them.
CandidateFiles(root) ==
    << <<root, "a.ttl">>, <<root, "versions", "a.ttl">> >>

\* Where the repository may be checked out: the components of the absolute
\* path Path(__file__).parent.parent.
RepoRoots == { <<"repo">>, <<"versions", "repo">> }

VALIDATION_TARGETS ==
    << <<"data", "england", "programme-structure.ttl">>,
       <<"data", "england", "themes.ttl">>,
       <<"data", "england", "subjects", "science", "science-subject.ttl">>,
       <<"data", "england", "subjects", "science", "science-knowledge-taxonomy.ttl">>,
       <<"data", "england", "subjects", "science", "science-schemes.ttl">> >>

TEMP_COMBINED == <<"temp_combined.ttl">>

(***************************************************************************)
(* The Neo4j database                                                      *)
(*   A URI is <<namespace, slug>>.  A node is [id, labels, props] with     *)
(*   id = <<uri, gen>>, gen being the run that created it (0: present      *)
(*   before the first run).  A relationship is [src, type, dst, props],    *)
(*   src and dst being node ids; relationships equal in all four are       *)
(*   identified.  A relationship type is a sequence of characters.         *)
(***************************************************************************)
NULL == "null"

PropNames == {"title", "unitTitle", "seq", "order", "unitSlug"}

NoProps == [p \in PropNames |-> NULL]

Uri(n) == n.id[1]

NodeById(d, id) == CHOOSE n \in d.nodes : n.id = id

HasLabels(d, id, ls) == ls \subseteq NodeById(d, id).labels

U_prog == <<"oak", "prog">>
U_unit == <<"oak", "unit">>
U_incl == <<"oak", "incl">>
U_onto == <<"oak", "onto">>
U_ext  == <<"ext", "thing">>
U_old  == <<"oak", "old">>

T_aB  == <<"a", "B">>
T_bA  == <<"b", "A">>
T_bb  == <<"b", "b">>
T_ab  == <<"a", "b">>
T_B_A == <<"B", "_", "A">>
T_A_A == <<"A", "_", "A">>
T_AB  == <<"A", "B">>

\* What the database holds before the first run: a node of another application,
\* a node left by an earlier export, and a relationship between them.
LegacyDb ==
    [nodes |-> { [id |-> <<U_ext, 0>>, labels |-> {"Legacy"}, props |-> NoProps],
                 [id |-> <<U_old, 0>>, labels |-> {"Oak", "Unit"}, props |-> NoProps] },
     rels  |-> { [src |-> <<U_ext, 0>>, type |-> T_ab, dst |-> <<U_old, 0>>,
                  props |-> NoProps] }]

(***************************************************************************)
(* scripts/neo4j_export_config.json, as validated by Neo4jExportConfig.    *)
(* Dictionaries are sequences of pairs, in insertion order.                *)
(***************************************************************************)
LabelMapping ==
    [source_label |-> "Resource", target_label |-> "Oak", uri_pattern |-> "oak"]

NoConfig ==
    [label_mapping |-> LabelMapping,
     uri_slug_extraction |-> <<>>,
     property_mappings |-> <<>>,
     relationship_type_mappings |-> <<>>,
     reverse_relationships |-> <<>>,
     inclusion_flattening |-> <<>>]

FullConfig ==
    [label_mapping |-> LabelMapping,
     uri_slug_extraction |-> << <<"Unit", "unitSlug">> >>,
     property_mappings |-> << <<"Unit", "title", "unitTitle">> >>,
     relationship_type_mappings |-> << <<T_bA, T_bb>> >>,
     reverse_relationships |-> << <<T_ab, T_B_A>> >>,
     inclusion_flattening |->
        << [inclusion_node_label |-> "Incl",
            source_node_label    |-> "Prog",
            target_node_label    |-> "Unit",
            relationship_type    |-> T_A_A,
            relationship_property_mappings |-> << <<"seq", "order">> >>,
            copy_target_properties |-> <<>>] >>]

\* The configurations a run may load.
Configs == {NoConfig, FullConfig}

(***************************************************************************)
(* The TTL files under data/oak-curriculum.  A triple has a subject s and   *)
(* a kind: "type" (rdf:type, name the class), "literal" (name the          *)
(* property, lit the value) or "rel" (p the relationship type, o a URI).   *)
(***************************************************************************)
F1 == "programmes.ttl"
F2 == "units.ttl"

TypeTriple(s, class) ==
    [kind |-> "type", s |-> s, name |-> class, lit |-> "", p |-> <<>>, o |-> <<>>]

LiteralTriple(s, prop, value) ==
    [kind |-> "literal", s |-> s, name |-> prop, lit |-> value, p |-> <<>>, o |-> <<>>]

RelTriple(s, type, o) ==
    [kind |-> "rel", s |-> s, name |-> "", lit |-> "", p |-> type, o |-> o]

FileTriples(f) ==
    IF f = F1
    THEN << TypeTriple(U_onto, "Ontology"),
            TypeTriple(U_unit, "Unit"),
            LiteralTriple(U_unit, "title", "Cells"),
            TypeTriple(U_prog, "Prog"),
            RelTriple(U_prog, T_aB, U_unit),
            RelTriple(U_prog, T_ab, U_ext) >>
    ELSE << TypeTriple(U_incl, "Incl"),
            LiteralTriple(U_incl, "seq", "1"),
            RelTriple(U_prog, T_bA, U_incl),
            RelTriple(U_incl, T_AB, U_unit) >>

\* The lists discover_files may return.
Discoveries == { <<>>, <<F1>>, <<F1, F2>> }

VARIABLES
    run,        \* number of runs started so far
    script,     \* entry point of the current run ("none" before the first)
    pc,         \* position in main() of the current run
    args,       \* parsed command-line flags of the current run
    log,        \* what the current run printed / logged, in order
    exitCode,   \* process exit status, meaningful when pc = "done"
    raised,     \* call sites that raised an exception in the current run
    written,    \* paths of files the current run created or overwrote
    executed,   \* scripts whose functions were executed by the current run
    stateRead,  \* persistent stores from which this run read an earlier run's data
    tsFile,     \* the run-timestamp file: [exists, by] (by = run that wrote it)
    tsFile0,    \* tsFile as it was when the current run started
    data,       \* converters: shape of the loaded JSON document
    subjects    \* converters: subjects still to be processed by the loop

\* Locals of the converter scripts.
convVars == <<data, subjects>>

VARIABLES
    roots,            \* merge_ttls: root directories still to be scanned
    files_processed,  \* merge_ttls: files parsed into the merged graph, in order
    repo_root,        \* merge_ttls: components of Path(__file__).parent.parent
    ttl_found         \* merge_ttls: the .ttl files rglob has yielded so far

\* Locals of merge_ttls.
mergeVars == <<roots, files_processed, repo_root, ttl_found>>

VARIABLES
    db,            \* the Neo4j database: [nodes, rels]; survives the run
    config,        \* export_to_neo4j: the validated Neo4jExportConfig
    store,         \* export_to_neo4j: triples added to neo4j_graph, not yet committed
    ttl_files,     \* export_to_neo4j: the files discover_files returned
    file_results,  \* export_to_neo4j: outcome of each file attempted so far, in order
    stepsRun,      \* export_to_neo4j: transformation methods invoked so far, in order
    clearDriver,   \* export_to_neo4j: driver opened by clear_neo4j_data
    driver,        \* export_to_neo4j: driver opened by main for the transformer
    neo4j_store,   \* export_to_neo4j: the rdflib-neo4j store opened by main
    rel_type,      \* export_to_neo4j: argument of a call of camel_to_upper_snake
    new_type       \* export_to_neo4j: what that call returned

\* Locals of export_to_neo4j (db is not one of them: it outlives the process).
\* The call of camel_to_upper_snake taken on its own.
camelVars == <<rel_type, new_type>>

expVars == <<config, store, ttl_files, file_results, stepsRun, clearDriver, driver,
             neo4j_store, camelVars>>

vars == <<run, script, pc, args, log, exitCode, raised, written, executed,
          stateRead, tsFile, tsFile0, convVars, mergeVars, db, expVars>>

Init ==
    /\ run = 0
    /\ script = "none"
    /\ pc = "done"
    /\ args = NoArgs
    /\ log = <<>>
    /\ exitCode = 0
    /\ raised = {}
    /\ written = {}
    /\ executed = {}
    /\ stateRead = {}
    /\ tsFile = [exists |-> FALSE, by |-> 0]
    /\ tsFile0 = tsFile
    /\ data = NoData
    /\ subjects = <<>>
    /\ roots = <<>>
    /\ files_processed = <<>>
    /\ repo_root = <<>>
    /\ ttl_found = {}
    /\ db = LegacyDb
    /\ config = NoConfig
    /\ store = {}
    /\ ttl_files = <<>>
    /\ file_results = <<>>
    /\ stepsRun = <<>>
    /\ clearDriver = "none"
    /\ driver = "none"
    /\ neo4j_store = "none"
    /\ rel_type = <<>>
    /\ new_type = <<>>

\* The shell starts one of the scripts with some flags.
StartRun ==
    /\ pc = "done"
    /\ run < MaxRuns
    /\ run' = run + 1
    /\ \E s \in Scripts :
         /\ script' = s
         /\ \E a \in ArgsOf(s) : args' = a
         /\ pc' = "main"
         /\ executed' = {s}
    /\ log' = <<>>
    /\ exitCode' = 0
    /\ raised' = {}
    /\ written' = {}
    /\ stateRead' = {}
    /\ tsFile0' = tsFile
    /\ data' = NoData
    /\ subjects' = <<>>
    /\ roots' = IF script' = MERGE THEN ROOT_DIRS ELSE <<>>
    /\ files_processed' = <<>>
    /\ \E r \in (IF script' = MERGE THEN RepoRoots ELSE {<<>>}) : repo_root' = r
    /\ ttl_found' = {}
    /\ config' = NoConfig
    /\ store' = {}
    /\ ttl_files' = <<>>
    /\ file_results' = <<>>
    /\ stepsRun' = <<>>
    /\ clearDriver' = "none"
    /\ driver' = "none"
    /\ neo4j_store' = "none"
    /\ UNCHANGED camelVars
    /\ UNCHANGED db
    /\ UNCHANGED tsFile

(***************************************************************************)
(* Shared result conventions                                               *)
(*   log holds, in order, the calls that returned normally and the         *)
(*   messages printed; a call that raised is recorded in raised instead.   *)
(***************************************************************************)
Return(code) == pc' = "done" /\ exitCode' = code

\* State of sanity-sample-data/sample-data.json as a run finds it.
SampleFileStates == {"missing", "invalid", "ok"}

(***************************************************************************)
(* scripts/sanity_to_ttl_enhanced.py                                       *)
(***************************************************************************)
\* The API fetch is a stub: its body is a string literal followed by raise.
Enh_fetch_from_sanity_api_Implemented(a) == [raises |-> FALSE]
Enh_fetch_from_sanity_api(a) == [raises |-> TRUE]

Enh_load_sample_data(sampleFile) == [raises |-> sampleFile # "ok"]

Enh_use_api(a) == a.api

\* The two flag checks at the top of main.
EnhFlagsError_NoIncrementalCheck(a) == a.api /\ a.sample
EnhFlagsError(a) ==
    \/ a.api /\ a.sample
    \/ a.incremental /\ ~Enh_use_api(a)

\* `if use_api and not args.dry_run: save_run_timestamp()`
EnhSavesTimestamp_AnySource(a) == ~a.dry_run
EnhSavesTimestamp(a) == Enh_use_api(a) /\ ~a.dry_run

\* save_run_timestamp: overwrite the file with the current time.
save_run_timestamp == [exists |-> TRUE, by |-> run]

\* get_last_run_timestamp reads TIMESTAMP_FILE when it exists.
get_last_run_timestamp_reads == IF tsFile.exists THEN {TIMESTAMP_FILE} ELSE {}

\* main, from parse_arguments to the creation of the UpdateScope.
EnhMain ==
    /\ script = ENHANCED /\ pc = "main"
    /\ IF EnhFlagsError(args)
       THEN /\ log' = log \o <<"Error: invalid flags">>
            /\ Return(1)
       ELSE /\ log' = log
            /\ pc' = "enh_load"
            /\ UNCHANGED exitCode
    /\ UNCHANGED <<run, script, args, raised, written, executed, stateRead,
                   tsFile, tsFile0, convVars,
                   mergeVars, db, expVars>>

\* main, the try block that loads the data.
EnhLoad ==
    /\ script = ENHANCED /\ pc = "enh_load"
    /\ \E sampleFile \in SampleFileStates :
         LET r == IF Enh_use_api(args)
                  THEN Enh_fetch_from_sanity_api(args)
                  ELSE Enh_load_sample_data(sampleFile)
         IN IF r.raises
            THEN /\ log' = log \o <<"Loading data", "Error loading data">>
                 /\ raised' = raised \cup {"load"}
                 /\ Return(1)
            ELSE /\ log' = log \o <<"Loading data", "loaded">>
                 /\ raised' = raised
                 /\ pc' = "enh_summary"
                 /\ UNCHANGED exitCode
    /\ UNCHANGED <<run, script, args, written, executed, stateRead, tsFile, tsFile0, convVars,
                   mergeVars, db, expVars>>

\* A variant of EnhSummary that saves the timestamp before looking at --dry-run.
EnhSummary_SavesFirst ==
    /\ script = ENHANCED /\ pc = "enh_summary"
    /\ tsFile' = save_run_timestamp
    /\ written' = written \cup {TIMESTAMP_FILE}
    /\ IF args.dry_run
       THEN /\ log' = log \o <<"UPDATE SCOPE", "DRY RUN">>
            /\ Return(0)
       ELSE /\ log' = log \o <<"UPDATE SCOPE">>
            /\ pc' = "enh_convert"
            /\ UNCHANGED exitCode
    /\ UNCHANGED <<run, script, args, raised, executed, stateRead, tsFile0, convVars,
                   mergeVars, db, expVars>>

\* main: print_scope_summary, then the --dry-run exit.
EnhSummary ==
    /\ script = ENHANCED /\ pc = "enh_summary"
    /\ stateRead' = IF args.incremental
                    THEN stateRead \cup get_last_run_timestamp_reads
                    ELSE stateRead
    /\ IF args.dry_run
       THEN /\ log' = log \o <<"UPDATE SCOPE", "DRY RUN">>
            /\ Return(0)
       ELSE /\ log' = log \o <<"UPDATE SCOPE">>
            /\ pc' = "enh_convert"
            /\ UNCHANGED exitCode
    /\ UNCHANGED <<run, script, args, raised, written, executed, tsFile, tsFile0, convVars,
                   mergeVars, db, expVars>>

\* A variant of EnhConvert that imports the conversion functions of sanity_to_ttl.
EnhConvert_ImportsSanity ==
    /\ script = ENHANCED /\ pc = "enh_convert"
    /\ executed' = executed \cup {SANITY}
    /\ log' = log \o <<"Converting to RDF", "Conversion complete">>
    /\ Return(0)
    /\ UNCHANGED <<run, script, args, raised, written, stateRead, tsFile, tsFile0, convVars,
                   mergeVars, db, expVars>>

\* main, from "Converting to RDF..." to return 0.  No conversion function is
\* called and no TTL file is written here.
EnhConvert ==
    /\ script = ENHANCED /\ pc = "enh_convert"
    /\ IF EnhSavesTimestamp(args)
       THEN /\ tsFile' = save_run_timestamp
            /\ written' = written \cup {TIMESTAMP_FILE}
            /\ log' = log \o <<"Converting to RDF", "Conversion complete",
                               "save_run_timestamp">>
       ELSE /\ log' = log \o <<"Converting to RDF", "Conversion complete">>
            /\ UNCHANGED <<tsFile, written>>
    /\ Return(0)
    /\ UNCHANGED <<run, script, args, raised, executed, stateRead, tsFile0, convVars,
                   mergeVars, db, expVars>>

(***************************************************************************)
(* scripts/sanity_to_ttl.py                                                *)
(*   main has no exception handler: an exception ends the process with a   *)
(*   traceback and exit status 1.                                          *)
(***************************************************************************)
San_fetch_from_sanity_api == [raises |-> TRUE]

San_load_sample_data(sampleFile) == [raises |-> sampleFile # "ok"]

\* generate_subject_files returns early when the subject has no document.
SanSkipsSubject(d, s) == s \notin d.docs

\* main: choose the source and load the data.
SanLoad ==
    /\ script = SANITY /\ pc = "main"
    /\ \E sampleFile \in SampleFileStates, d \in Datas :
         LET r == IF args.api THEN San_fetch_from_sanity_api
                              ELSE San_load_sample_data(sampleFile)
         IN IF r.raises
            THEN /\ log' = log \o <<"Loading data">>
                 /\ raised' = raised \cup {"load"}
                 /\ Return(1)
                 /\ UNCHANGED data
            ELSE /\ log' = log \o <<"Loading data", "loaded">>
                 /\ data' = d
                 /\ raised' = raised
                 /\ pc' = "san_programme"
                 /\ UNCHANGED exitCode
    /\ UNCHANGED <<run, script, args, written, executed, stateRead, tsFile, tsFile0,
                   subjects,
                   mergeVars, db, expVars>>

\* main, "1. Programme Structure": convert, then write programme-structure.ttl.
SanProgramme ==
    /\ script = SANITY /\ pc = "san_programme"
    /\ \E outcome \in {"ok", "convert raises", "write raises"} :
         CASE outcome = "ok" ->
                /\ log' = log \o <<"Converting to RDF", "convert", "write_ttl_file">>
                /\ written' = written \cup {PROGRAMME_TTL}
                /\ pc' = "san_themes"
                /\ UNCHANGED <<raised, exitCode>>
           [] outcome = "convert raises" ->
                /\ log' = log \o <<"Converting to RDF">>
                /\ raised' = raised \cup {"convert"}
                /\ Return(1)
                /\ UNCHANGED written
           [] outcome = "write raises" ->
                /\ log' = log \o <<"Converting to RDF", "convert">>
                /\ raised' = raised \cup {"write_ttl_file"}
                /\ Return(1)
                /\ UNCHANGED written
    /\ UNCHANGED <<run, script, args, executed, stateRead, tsFile, tsFile0, convVars,
                   mergeVars, db, expVars>>

\* main, "2. Themes" and discover_subjects.
SanThemes ==
    /\ script = SANITY /\ pc = "san_themes"
    /\ \E ok \in BOOLEAN :
         IF ~data.themes
         THEN /\ subjects' = data.subjects
              /\ pc' = "san_subjects"
              /\ UNCHANGED <<log, written, raised, exitCode>>
         ELSE IF ok
         THEN /\ log' = log \o <<"convert", "write_ttl_file">>
              /\ written' = written \cup {THEMES_TTL}
              /\ subjects' = data.subjects
              /\ pc' = "san_subjects"
              /\ UNCHANGED <<raised, exitCode>>
         ELSE /\ raised' = raised \cup {"convert"}
              /\ Return(1)
              /\ UNCHANGED <<log, written, subjects>>
    /\ UNCHANGED <<run, script, args, executed, stateRead, tsFile, tsFile0, data,
                   mergeVars, db, expVars>>

\* main, one iteration of `for subject in subjects`:
\* get_subject_data, then generate_subject_files.
SanSubject ==
    /\ script = SANITY /\ pc = "san_subjects"
    /\ subjects # <<>>
    /\ LET s == Head(subjects)
           files == SubjectFiles(s)
       IN IF SanSkipsSubject(data, s)
          THEN /\ log' = log \o <<"No data found, skipping">>
               /\ subjects' = Tail(subjects)
               /\ UNCHANGED <<written, raised, pc, exitCode>>
          ELSE \E k \in 0..Len(files) :
                 /\ written' = written \cup Range(Prefix(files, k))
                 /\ log' = log \o [i \in 1..(2 * k) |->
                                     IF i % 2 = 1 THEN "convert" ELSE "write_ttl_file"]
                 /\ IF k = Len(files)
                    THEN /\ subjects' = Tail(subjects)
                         /\ UNCHANGED <<raised, pc, exitCode>>
                    ELSE /\ raised' = raised \cup {"generate_subject_files"}
                         /\ Return(1)
                         /\ UNCHANGED subjects
    /\ UNCHANGED <<run, script, args, executed, stateRead, tsFile, tsFile0, data,
                   mergeVars, db, expVars>>

\* main, after the loop: the closing messages.
SanComplete ==
    /\ script = SANITY /\ pc = "san_subjects"
    /\ subjects = <<>>
    /\ log' = log \o <<"Conversion complete">>
    /\ Return(0)
    /\ UNCHANGED <<run, script, args, raised, written, executed, stateRead,
                   tsFile, tsFile0, convVars,
                   mergeVars, db, expVars>>

(***************************************************************************)
(* scripts/sanity_to_ttl_dynamic_subjects.py                               *)
(***************************************************************************)
\* The modules whose functions generate_subject_files executes: its own and,
\* through `from sanity_to_ttl import ...`, those of sanity_to_ttl.
DynGenerateExecutes == {DYNAMIC, SANITY}

\* main: load the sample file and discover the subjects.
DynLoad ==
    /\ script = DYNAMIC /\ pc = "main"
    /\ \E sampleFile \in SampleFileStates, d \in Datas :
         IF sampleFile # "ok"
         THEN /\ raised' = raised \cup {"load"}
              /\ Return(1)
              /\ UNCHANGED <<log, data, subjects>>
         ELSE /\ data' = d
              /\ raised' = raised
              /\ IF d.subjects = <<>>
                 THEN /\ log' = log \o <<"loaded", "No subjects found">>
                      /\ Return(0)
                      /\ UNCHANGED subjects
                 ELSE /\ log' = log \o <<"loaded">>
                      /\ subjects' = d.subjects
                      /\ pc' = "dyn_subjects"
                      /\ UNCHANGED exitCode
    /\ UNCHANGED <<run, script, args, written, executed, stateRead, tsFile, tsFile0,
                   mergeVars, db, expVars>>

\* main, one iteration of `for subject in sorted(subjects)`:
\* get_subject_data, then generate_subject_files.
DynSubject ==
    /\ script = DYNAMIC /\ pc = "dyn_subjects"
    /\ subjects # <<>>
    /\ LET files == SubjectFiles(Head(subjects))
       IN \E k \in 0..Len(files) :
            /\ executed' = executed \cup DynGenerateExecutes
            /\ written' = written \cup Range(Prefix(files, k))
            /\ log' = log \o [i \in 1..(2 * k) |->
                                IF i % 2 = 1 THEN "convert" ELSE "write_ttl_file"]
            /\ IF k = Len(files)
               THEN /\ subjects' = Tail(subjects)
                    /\ UNCHANGED <<raised, pc, exitCode>>
               ELSE /\ raised' = raised \cup {"generate_subject_files"}
                    /\ Return(1)
                    /\ UNCHANGED subjects
    /\ UNCHANGED <<run, script, args, stateRead, tsFile, tsFile0, data,
                   mergeVars, db, expVars>>

\* main, after the loop.
DynComplete ==
    /\ script = DYNAMIC /\ pc = "dyn_subjects"
    /\ subjects = <<>>
    /\ log' = log \o <<"All subjects processed">>
    /\ Return(0)
    /\ UNCHANGED <<run, script, args, raised, written, executed, stateRead,
                   tsFile, tsFile0, convVars,
                   mergeVars, db, expVars>>

(***************************************************************************)
(* scripts/merge_ttls.py                                                   *)
(***************************************************************************)
\* `if "versions" in ttl_file.parts`
MergeSkips_Never(path) == FALSE
MergeSkips(path) == "versions" \in Range(path)

\* The files of `found`, in order, that the loop parses before it stops:
\* all unskipped files when none of them is in bad, else those before the
\* first bad one.
RECURSIVE MergeParsed(_, _)
MergeParsed(found, bad) ==
    IF found = <<>> THEN <<>>
    ELSE IF MergeSkips(Head(found)) THEN MergeParsed(Tail(found), bad)
    ELSE IF Head(found) \in bad THEN <<>>
    ELSE <<Head(found)>> \o MergeParsed(Tail(found), bad)

\* `except Exception as e: print(...); raise`: a file that does not parse
\* ends the run.
MergeAborts_Swallows(bad) == FALSE
MergeAborts(bad) == bad # {}

\* main, one iteration of `for root_dir in ROOT_DIRS`.  The paths rglob
\* yields start with the components of repo_root.
MergeRoot ==
    /\ script = MERGE /\ pc = "main"
    /\ roots # <<>>
    /\ LET rel   == CandidateFiles(Head(roots))
           cands == [i \in 1..Len(rel) |-> repo_root \o rel[i]]
       IN \E exists \in BOOLEAN, present \in SUBSET Range(cands) :
          \E bad \in SUBSET { f \in present : ~MergeSkips(f) } :
            IF ~exists
            THEN /\ present = {} /\ bad = {}
                 /\ log' = log \o <<"Directory not found">>
                 /\ roots' = Tail(roots)
                 /\ UNCHANGED <<files_processed, ttl_found, raised, pc, exitCode>>
            ELSE LET found  == SelectSeq(cands, LAMBDA f : f \in present)
                     parsed == MergeParsed(found, bad)
                 IN /\ files_processed' = files_processed \o parsed
                    /\ ttl_found' = ttl_found \cup present
                    /\ log' = log \o [i \in 1..Len(parsed) |-> "parse"]
                    /\ IF ~MergeAborts(bad)
                       THEN /\ roots' = Tail(roots)
                            /\ UNCHANGED <<raised, pc, exitCode>>
                       ELSE /\ raised' = raised \cup {"parse"}
                            /\ Return(1)
                            /\ UNCHANGED roots
    /\ UNCHANGED <<run, script, args, written, executed, stateRead, tsFile, tsFile0,
                   convVars, repo_root, db, expVars>>

\* main, after the loop: check_imports, serialize, the success message.
MergeWrite ==
    /\ script = MERGE /\ pc = "main"
    /\ roots = <<>>
    /\ \E ok \in BOOLEAN :
         IF ok
         THEN /\ written' = written \cup {OUTPUT_FILE}
              /\ log' = log \o <<"check_imports", "serialize", "Successfully merged">>
              /\ Return(0)
              /\ UNCHANGED raised
         ELSE /\ raised' = raised \cup {"serialize"}
              /\ log' = log \o <<"check_imports">>
              /\ Return(1)
              /\ UNCHANGED written
    /\ UNCHANGED <<run, script, args, executed, stateRead, tsFile, tsFile0,
                   convVars, mergeVars, db, expVars>>

(***************************************************************************)
(* scripts/validation.py                                                   *)
(***************************************************************************)
\* check_syntax over the targets, as all(...) drives it: it stops at the first
\* target that does not parse.  firstBad = 0: every target parses.  What the
\* calls print, in order.
SyntaxChecks(firstBad) ==
    IF firstBad = 0
    THEN [i \in 1..Len(VALIDATION_TARGETS) |-> "check_syntax"]
    ELSE [i \in 1..firstBad |-> "check_syntax"] \o <<"Syntax error">>

\* syntax_ok = all(check_syntax(f) for f in files)
syntax_ok_Ignored(firstBad) == TRUE
syntax_ok(firstBad) == firstBad = 0

\* The status of the final `if syntax_ok and validation_ok`.
ValExitCode_AlwaysZero(s_ok, validation_ok) == 0
ValExitCode(s_ok, validation_ok) == IF s_ok /\ validation_ok THEN 0 ELSE 1

\* main, the syntax check and the exit that follows a failed one.
ValSyntax ==
    /\ script = VALIDATE /\ pc = "main"
    /\ \E firstBad \in 0..Len(VALIDATION_TARGETS) :
         IF syntax_ok(firstBad)
         THEN /\ log' = log \o SyntaxChecks(firstBad) \o <<"syntax ok">>
              /\ pc' = "val_shacl"
              /\ UNCHANGED exitCode
         ELSE /\ log' = log \o SyntaxChecks(firstBad) \o <<"Syntax errors found">>
              /\ Return(1)
    /\ UNCHANGED <<run, script, args, raised, written, executed, stateRead,
                   tsFile, tsFile0, convVars, mergeVars, db, expVars>>

\* main, the SHACL validation of the combined file and the final verdict.
\* The finally clause unlinks the combined file on every path; an exception
\* leaves main uncaught and ends the process with status 1.
ValShacl ==
    /\ script = VALIDATE /\ pc = "val_shacl"
    /\ \E outcome \in {"conforms", "violations", "combine raises", "validate raises"} :
         /\ written' = written \cup {TEMP_COMBINED}
         /\ CASE outcome = "conforms" ->
                   /\ log' = log \o <<"combined", "validate", "Valid", "unlink">>
                                 \o (IF ValExitCode(TRUE, TRUE) = 0
                                     THEN <<"All validations passed">>
                                     ELSE <<"Validation failed">>)
                   /\ Return(ValExitCode(TRUE, TRUE))
                   /\ UNCHANGED raised
              [] outcome = "violations" ->
                   /\ log' = log \o <<"combined", "validate", "Validation errors", "unlink">>
                                 \o (IF ValExitCode(TRUE, FALSE) = 0
                                     THEN <<"All validations passed">>
                                     ELSE <<"Validation failed">>)
                   /\ Return(ValExitCode(TRUE, FALSE))
                   /\ UNCHANGED raised
              [] outcome = "combine raises" ->
                   /\ log' = log \o <<"unlink">>
                   /\ raised' = raised \cup {"combine"}
                   /\ Return(1)
              [] outcome = "validate raises" ->
                   /\ log' = log \o <<"combined", "unlink">>
                   /\ raised' = raised \cup {"validate"}
                   /\ Return(1)
    /\ UNCHANGED <<run, script, args, executed, stateRead, tsFile, tsFile0,
                   convVars, mergeVars, db, expVars>>

(***************************************************************************)
(* scripts/export_to_neo4j.py: helpers                                     *)
(***************************************************************************)
UpperChars == {"A", "B"}
LowerChars == {"a", "b"}

ToUpper(c) == CASE c = "a" -> "A" [] c = "b" -> "B" [] OTHER -> c

\* str.upper()
Upper(name) == [i \in 1..Len(name) |-> ToUpper(name[i])]

\* str.isupper(): no lower-case character and at least one upper-case one.
IsUpperStr(name) ==
    /\ \A i \in 1..Len(name) : name[i] \notin LowerChars
    /\ \E i \in 1..Len(name) : name[i] \in UpperChars

\* re.sub('(?<!^)(?=[A-Z])', '_', name): an underscore before every upper-case
\* character that is not the first character.
RECURSIVE InsertUnderscores(_, _)
InsertUnderscores(name, i) ==
    IF i > Len(name) THEN <<>>
    ELSE (IF i > 1 /\ name[i] \in UpperChars THEN <<"_", name[i]>> ELSE <<name[i]>>)
         \o InsertUnderscores(name, i + 1)

camel_to_upper_snake_NoUpper(name) == InsertUnderscores(name, 1)
camel_to_upper_snake(name) == Upper(InsertUnderscores(name, 1))

\* The names over the letters, up to MaxNameLen characters.
Names == UNION { [1..n -> UpperChars \cup LowerChars] : n \in 0..MaxNameLen }

\* Code points, for ORDER BY on strings.
Code(c) == CASE c = "A" -> 65 [] c = "B" -> 66 [] c = "_" -> 95
             [] c = "a" -> 97 [] c = "b" -> 98

RECURSIVE StrLess(_, _)
StrLess(x, y) ==
    IF y = <<>> THEN FALSE
    ELSE IF x = <<>> THEN TRUE
    ELSE IF Code(Head(x)) # Code(Head(y)) THEN Code(Head(x)) < Code(Head(y))
    ELSE StrLess(Tail(x), Tail(y))

\* The elements of a set of strings as a sequence in ascending order.
RECURSIVE SortedSeq(_)
SortedSeq(S) ==
    IF S = {} THEN <<>>
    ELSE LET m == CHOOSE x \in S : \A y \in S \ {x} : StrLess(x, y)
         IN <<m>> \o SortedSeq(S \ {m})

(***************************************************************************)
(* RDFLoader.load_and_filter                                               *)
(***************************************************************************)
\* Subjects typed as one of filters.exclude_subjects_by_type (owl:Ontology).
ExcludedSubjects(triples) ==
    { t.s : t \in { x \in Range(triples) : x.kind = "type" /\ x.name = "Ontology" } }

\* The triples of the filtered graph, in iteration order.
load_and_filter(f) ==
    SelectSeq(FileTriples(f), LAMBDA t : t.s \notin ExcludedSubjects(FileTriples(f)))

(***************************************************************************)
(* neo4j_graph.commit(): the store writes the buffered triples.  Subjects  *)
(* and objects are merged on (:Resource {uri}); rdf:type adds a label, a   *)
(* literal sets a property, any other triple merges a relationship.        *)
(***************************************************************************)
MergeId(d, uri, gen) ==
    IF \E n \in d.nodes : Uri(n) = uri /\ "Resource" \in n.labels
    THEN (CHOOSE n \in d.nodes : Uri(n) = uri /\ "Resource" \in n.labels).id
    ELSE <<uri, gen>>

Commit(d, triples, gen) ==
    LET uris    == { t.s : t \in triples } \cup { t.o : t \in { x \in triples : x.kind = "rel" } }
        base(u) == IF \E n \in d.nodes : n.id = MergeId(d, u, gen)
                   THEN NodeById(d, MergeId(d, u, gen))
                   ELSE [id |-> <<u, gen>>, labels |-> {"Resource"}, props |-> NoProps]
        lits(u) == { t \in triples : t.kind = "literal" /\ t.s = u }
        merged(u) ==
            [id     |-> base(u).id,
             labels |-> base(u).labels
                        \cup { t.name : t \in { x \in triples : x.kind = "type" /\ x.s = u } },
             props  |-> [p \in PropNames |->
                           IF \E t \in lits(u) : t.name = p
                           THEN (CHOOSE t \in lits(u) : t.name = p).lit
                           ELSE base(u).props[p]]]
        touched == { MergeId(d, u, gen) : u \in uris }
    IN [nodes |-> { n \in d.nodes : n.id \notin touched } \cup { merged(u) : u \in uris },
        rels  |-> d.rels \cup
                  { [src |-> MergeId(d, t.s, gen), type |-> t.p,
                     dst |-> MergeId(d, t.o, gen), props |-> NoProps] :
                    t \in { x \in triples : x.kind = "rel" } }]

(***************************************************************************)
(* The Cypher statements of Neo4jTransformer and clear_neo4j_data          *)
(***************************************************************************)
\* MATCH (n:src) WHERE n.uri STARTS WITH pat SET n:tgt REMOVE n:src
RelabelQuery(d, src, tgt, pat) ==
    [d EXCEPT !.nodes =
       { IF src \in n.labels /\ Uri(n)[1] = pat
         THEN [n EXCEPT !.labels = (n.labels \cup {tgt}) \ {src}]
         ELSE n : n \in d.nodes }]

\* MATCH (n:label:main) WHERE n.uri IS NOT NULL SET n.prop = split(n.uri, '/')[-1]
SlugQuery(d, label, main, prop) ==
    [d EXCEPT !.nodes =
       { IF {label, main} \subseteq n.labels
         THEN [n EXCEPT !.props[prop] = Uri(n)[2]]
         ELSE n : n \in d.nodes }]

\* MATCH (n:label:main) WHERE n.old IS NOT NULL SET n.new = n.old REMOVE n.old
PropertyQuery(d, label, main, old, new) ==
    [d EXCEPT !.nodes =
       { IF {label, main} \subseteq n.labels /\ n.props[old] # NULL
         THEN [n EXCEPT !.props[new] = n.props[old], !.props[old] = NULL]
         ELSE n : n \in d.nodes }]

\* MATCH (a)-[old:T]->(b) CREATE (a)-[new:N]->(b) SET new = properties(old) DELETE old
RenameQuery(d, old, new) ==
    [d EXCEPT !.rels =
       { IF r.type = old THEN [r EXCEPT !.type = new] ELSE r : r \in d.rels }]

\* MATCH (a)-[old:T]->(b) CREATE (b)-[new:N]->(a) SET new = properties(old) DELETE old
ReverseQuery(d, old, new) ==
    [d EXCEPT !.rels =
       { IF r.type = old
         THEN [src |-> r.dst, type |-> new, dst |-> r.src, props |-> r.props]
         ELSE r : r \in d.rels }]

\* MATCH (source:S:main)-[r1]->(inclusion:I:main)-[r2]->(target:T:main)
\* CREATE (source)-[direct:R]->(target) SET direct.new = inclusion.old, ...
\* DETACH DELETE inclusion
FlattenQuery(d, fc, main) ==
    LET matches ==
          { m \in d.rels \X d.rels :
              /\ m[1] # m[2]
              /\ m[1].dst = m[2].src
              /\ HasLabels(d, m[1].src, {fc.source_node_label, main})
              /\ HasLabels(d, m[1].dst, {fc.inclusion_node_label, main})
              /\ HasLabels(d, m[2].dst, {fc.target_node_label, main}) }
        sets(pairs, p) == \E pr \in Range(pairs) : pr[2] = p
        from(pairs, node, p) == node.props[(CHOOSE pr \in Range(pairs) : pr[2] = p)[1]]
        directProps(m) ==
          [p \in PropNames |->
             IF sets(fc.copy_target_properties, p)
             THEN from(fc.copy_target_properties, NodeById(d, m[2].dst), p)
             ELSE IF sets(fc.relationship_property_mappings, p)
             THEN from(fc.relationship_property_mappings, NodeById(d, m[1].dst), p)
             ELSE NULL]
        created == { [src |-> m[1].src, type |-> fc.relationship_type,
                      dst |-> m[2].dst, props |-> directProps(m)] : m \in matches }
        deleted == { m[1].dst : m \in matches }
    IN [nodes |-> { n \in d.nodes : n.id \notin deleted },
        rels  |-> { r \in d.rels \cup created :
                      r.src \notin deleted /\ r.dst \notin deleted }]

\* MATCH (n:label) DETACH DELETE n
DeleteByLabel_AllNodes(d, label) == [nodes |-> {}, rels |-> {}]
DeleteByLabel(d, label) ==
    LET deleted == { n.id : n \in { x \in d.nodes : label \in x.labels } }
    IN [nodes |-> { n \in d.nodes : n.id \notin deleted },
        rels  |-> { r \in d.rels : r.src \notin deleted /\ r.dst \notin deleted }]

\* One statement of a transformation step; "read" statements change nothing.
ApplyQuery(d, q) ==
    CASE q.kind = "relabel"  -> RelabelQuery(d, q.src, q.tgt, q.pat)
      [] q.kind = "slug"     -> SlugQuery(d, q.label, q.main, q.prop)
      [] q.kind = "property" -> PropertyQuery(d, q.label, q.main, q.old, q.new)
      [] q.kind = "rename"   -> RenameQuery(d, q.old, q.new)
      [] q.kind = "reverse"  -> ReverseQuery(d, q.old, q.new)
      [] q.kind = "flatten"  -> FlattenQuery(d, q.fc, q.main)
      [] q.kind = "read"     -> d

\* The statements qs executed one after the other, each in its own transaction.
RECURSIVE ApplyQueries(_, _)
ApplyQueries(d, qs) ==
    IF Len(qs) = 0 THEN d ELSE ApplyQueries(ApplyQuery(d, Head(qs)), Tail(qs))

(***************************************************************************)
(* scripts/export_to_neo4j.py: main                                        *)
(***************************************************************************)
\* Variables no step of main of export_to_neo4j changes.
nonExpVars == <<run, script, args, written, executed, tsFile, tsFile0, convVars, mergeVars,
                camelVars>>

\* The stores holding data of an earlier run that a statement run against d
\* matches.
ReadsEarlier(d) ==
    IF \E n \in d.nodes : n.id[2] >= 1 /\ n.id[2] < run THEN {NEO4J_DB} ELSE {}

\* A variant of ExportFailed that exits without logging the exception.
ExportFailed_Silent(site) ==
    /\ raised' = raised \cup {site}
    /\ log' = log
    /\ Return(1)

\* The outer `except Exception` of main: log, then sys.exit(1).
ExportFailed(site) ==
    /\ raised' = raised \cup {site}
    /\ log' = log \o <<"Export failed">>
    /\ Return(1)

\* `if args.clear: clear_neo4j_data(...)`: where main goes once the
\* configuration is loaded.
AfterConfig_AlwaysClears(a) == "exp_clear"
AfterConfig(a) == IF a.clear THEN "exp_clear" ELSE "exp_connect"

\* main: locate, load and validate the configuration.
ExpConfig ==
    /\ script = EXPORT /\ pc = "main"
    /\ \E outcome \in {"missing", "raises", "ok"}, c \in Configs :
         CASE outcome = "missing" ->
                /\ log' = log \o <<"Configuration file not found">>
                /\ Return(1)
                /\ UNCHANGED <<raised, config>>
           [] outcome = "raises" ->
                /\ ExportFailed("config")
                /\ UNCHANGED config
           [] outcome = "ok" ->
                /\ config' = c
                /\ log' = log \o <<"Configuration loaded">>
                /\ pc' = AfterConfig(args)
                /\ UNCHANGED <<raised, exitCode>>
    /\ UNCHANGED <<nonExpVars, stateRead, db, store, ttl_files, file_results, stepsRun,
                   clearDriver, driver, neo4j_store>>

\* clear_neo4j_data(auth_data, label): the database and the driver it leaves,
\* and whether it raised.  outcome names the call that raises, if any.
ClearOutcomes == {"driver raises", "count raises", "delete raises", "remaining raises", "ok"}

clear_neo4j_data(d, label, outcome) ==
    LET label_count == Cardinality({ n \in d.nodes : label \in n.labels })
        deletes == /\ outcome \in {"delete raises", "remaining raises", "ok"}
                   /\ label_count > 0
    IN [db     |-> IF deletes /\ outcome # "delete raises"
                   THEN DeleteByLabel(d, label) ELSE d,
        driver |-> IF outcome = "driver raises" THEN "none" ELSE "closed",
        raises |-> \/ outcome \in {"driver raises", "count raises", "remaining raises"}
                   \/ outcome = "delete raises" /\ label_count > 0,
        counted |-> outcome \in {"remaining raises", "ok"}
                    \/ (outcome = "delete raises" /\ label_count = 0)]

\* main: the call of clear_neo4j_data.
ExpClear ==
    /\ script = EXPORT /\ pc = "exp_clear"
    /\ \E outcome \in ClearOutcomes :
         LET r == clear_neo4j_data(db, config.label_mapping.target_label, outcome)
         IN /\ db' = r.db
            /\ clearDriver' = r.driver
            /\ stateRead' = stateRead \cup ReadsEarlier(db)
            /\ IF r.raises
               THEN ExportFailed("clear")
               ELSE /\ log' = log \o <<"clear_neo4j_data">>
                    /\ pc' = "exp_connect"
                    /\ UNCHANGED <<raised, exitCode>>
    /\ UNCHANGED <<nonExpVars, config, store, ttl_files, file_results, stepsRun,
                   driver, neo4j_store>>

\* main: discover the TTL files, create the store and the graph.
ExpConnect ==
    /\ script = EXPORT /\ pc = "exp_connect"
    /\ \E found \in Discoveries, ok \in BOOLEAN :
         /\ ttl_files' = found
         /\ IF ok
            THEN /\ neo4j_store' = "open"
                 /\ log' = log \o <<"discover_files", "Connected">>
                 /\ pc' = "exp_files"
                 /\ UNCHANGED <<raised, exitCode>>
            ELSE /\ raised' = raised \cup {"connect"}
                 /\ log' = log \o <<"discover_files", "Export failed">>
                 /\ Return(1)
                 /\ UNCHANGED neo4j_store
    /\ UNCHANGED <<nonExpVars, stateRead, db, config, store, file_results, stepsRun,
                   clearDriver, driver>>

\* main, one iteration of `for ttl_file in ttl_files`: load_and_filter, then
\* add every triple; an exception is logged and the loop continues.
\* added: the number of triples handed to neo4j_graph.add before the outcome.
\* `for ttl_file in ttl_files:` whose `except Exception` ends in `continue`:
\* the loop is left when every file has a result, failed or not.
LoopDone_BreaksOnFailure(files, results) ==
    Len(results) = Len(files) \/ "failed" \in Range(results)
LoopDone(files, results) == Len(results) = Len(files)

ExpFile ==
    /\ script = EXPORT /\ pc = "exp_files"
    /\ ~LoopDone(ttl_files, file_results)
    /\ LET triples == load_and_filter(ttl_files[Len(file_results) + 1])
       IN \E outcome \in {"load raises", "add raises", "ok"} :
          \E added \in 0..Len(triples) :
            /\ outcome = "load raises" => added = 0
            /\ outcome = "add raises" => added < Len(triples) /\ added <= MaxPartialAdd
            /\ outcome = "ok" => added = Len(triples)
            /\ store' = store \cup Range(Prefix(triples, added))
            /\ IF outcome = "ok"
               THEN /\ log' = log \o <<"load_and_filter", "add">>
                    /\ file_results' = Append(file_results, "ok")
                    /\ UNCHANGED raised
               ELSE /\ log' = log
                             \o (IF outcome = "add raises" THEN <<"load_and_filter">> ELSE <<>>)
                             \o (IF added > 0 THEN <<"add">> ELSE <<>>)
                             \o <<"Failed to export">>
                    /\ file_results' = Append(file_results, "failed")
                    /\ raised' = raised \cup {"file"}
    /\ UNCHANGED <<nonExpVars, pc, exitCode, stateRead, db, config, ttl_files, stepsRun,
                   clearDriver, driver, neo4j_store>>

\* main, after the loop: commit, then open the driver of the transformer.
ExpCommit ==
    /\ script = EXPORT /\ pc = "exp_files"
    /\ LoopDone(ttl_files, file_results)
    /\ \E outcome \in {"commit raises", "driver raises", "ok"} :
         CASE outcome = "commit raises" ->
                /\ ExportFailed("commit")
                /\ UNCHANGED <<db, store, driver>>
           [] outcome = "driver raises" ->
                /\ db' = Commit(db, store, run)
                /\ store' = {}
                /\ raised' = raised \cup {"driver"}
                /\ log' = log \o <<"commit", "Export failed">>
                /\ Return(1)
                /\ UNCHANGED driver
           [] outcome = "ok" ->
                /\ db' = Commit(db, store, run)
                /\ store' = {}
                /\ driver' = "open"
                /\ log' = log \o <<"commit">>
                /\ pc' = "label_mapping"
                /\ UNCHANGED <<raised, exitCode>>
    /\ UNCHANGED <<nonExpVars, stateRead, config, ttl_files, file_results, stepsRun,
                   clearDriver, neo4j_store>>

(***************************************************************************)
(* Neo4jTransformer: the statements each method runs, in order             *)
(***************************************************************************)
ReadQuery == [kind |-> "read"]

MainLabel(c) == c.label_mapping.target_label

LabelMappingQueries(c) ==
    << [kind |-> "relabel", src |-> c.label_mapping.source_label,
        tgt |-> c.label_mapping.target_label, pat |-> c.label_mapping.uri_pattern],
       ReadQuery >>

SlugQueries(c) ==
    [i \in 1..Len(c.uri_slug_extraction) |->
       [kind |-> "slug", label |-> c.uri_slug_extraction[i][1], main |-> MainLabel(c),
        prop |-> c.uri_slug_extraction[i][2]]]

PropertyQueries(c) ==
    [i \in 1..Len(c.property_mappings) |->
       [kind |-> "property", label |-> c.property_mappings[i][1], main |-> MainLabel(c),
        old |-> c.property_mappings[i][2], new |-> c.property_mappings[i][3]]]

RelationshipTypeQueries(c) ==
    [i \in 1..Len(c.relationship_type_mappings) |->
       [kind |-> "rename", old |-> c.relationship_type_mappings[i][1],
        new |-> c.relationship_type_mappings[i][2]]]

ReverseQueries(c) ==
    [i \in 1..Len(c.reverse_relationships) |->
       [kind |-> "reverse", old |-> c.reverse_relationships[i][1],
        new |-> c.reverse_relationships[i][2]]]

FlatteningQueries(c) ==
    [i \in 1..Len(c.inclusion_flattening) |->
       [kind |-> "flatten", fc |-> c.inclusion_flattening[i], main |-> MainLabel(c)]]

\* `if rel_type == rel_type.upper() and '_' in rel_type or rel_type.isupper()`
AlreadyUpperCase(t) == (t = Upper(t) /\ "_" \in Range(t)) \/ IsUpperStr(t)

\* set(self.config.relationship_type_mappings.values())
ExplicitlySetTypes(c) ==
    { c.relationship_type_mappings[i][2] : i \in 1..Len(c.relationship_type_mappings) }

\* The two `continue` of the loop of _apply_camelcase_conversion.
CamelcaseSkips_IgnoresExplicit(c, t) == AlreadyUpperCase(t)
CamelcaseSkips(c, t) == AlreadyUpperCase(t) \/ t \in ExplicitlySetTypes(c)

CamelcaseQueries(d, c) ==
    LET all_rel_types == SortedSeq({ r.type : r \in d.rels })
        renamed == SelectSeq(all_rel_types, LAMBDA t : ~CamelcaseSkips(c, t))
    IN <<ReadQuery>> \o
       [i \in 1..Len(renamed) |->
          [kind |-> "rename", old |-> renamed[i], new |-> camel_to_upper_snake(renamed[i])]]

\* The order of the calls in apply_all_transformations.
TransformationOrder ==
    <<"label_mapping", "slug_extraction", "property_mappings",
      "relationship_type_mappings", "reverse_relationships",
      "inclusion_flattening", "camelcase_conversion">>

\* The statements of the step called name, for database d and configuration c.
StepQueries(name, d, c) ==
    CASE name = "label_mapping"              -> LabelMappingQueries(c)
      [] name = "slug_extraction"            -> SlugQueries(c)
      [] name = "property_mappings"          -> PropertyQueries(c)
      [] name = "relationship_type_mappings" -> RelationshipTypeQueries(c)
      [] name = "reverse_relationships"      -> ReverseQueries(c)
      [] name = "inclusion_flattening"       -> FlatteningQueries(c)
      [] name = "camelcase_conversion"       -> CamelcaseQueries(d, c)

\* What follows the step called name in apply_all_transformations and main.
AfterStep(name) ==
    LET i == IndexOf(TransformationOrder, name)
    IN IF i < Len(TransformationOrder) THEN TransformationOrder[i + 1] ELSE "verify"

\* The `finally` of main: driver.close() and neo4j_store.close().
ExpFinally ==
    /\ driver' = "closed"
    /\ neo4j_store' = "closed"

\* A variant of TransformStep in which a step that raised is called again.
TransformStep_Retry(name) ==
    /\ script = EXPORT /\ pc = name
    /\ stepsRun' = Append(stepsRun, name)
    /\ \E done \in 0..Len(StepQueries(name, db, config)) :
         /\ db' = ApplyQueries(db, Prefix(StepQueries(name, db, config), done))
         /\ IF done = Len(StepQueries(name, db, config))
            THEN /\ log' = log \o <<name>>
                 /\ pc' = AfterStep(name)
            ELSE /\ log' = log
                 /\ pc' = name
         /\ UNCHANGED <<raised, exitCode, driver, neo4j_store>>
    /\ stateRead' = stateRead
    /\ UNCHANGED <<nonExpVars, config, store, ttl_files, file_results, clearDriver>>

\* One method of Neo4jTransformer called by apply_all_transformations.  Each
\* statement runs in its own auto-commit transaction; done is the number of
\* statements that completed, the next one raising when any is left.  The
\* exception leaves through the finally and the outer except of main.
TransformStep(name) ==
    /\ script = EXPORT /\ pc = name
    /\ stepsRun' = Append(stepsRun, name)
    /\ \E done \in 0..Len(StepQueries(name, db, config)) :
         /\ db' = ApplyQueries(db, Prefix(StepQueries(name, db, config), done))
         /\ stateRead' = IF done > 0 THEN stateRead \cup ReadsEarlier(db) ELSE stateRead
         /\ IF done = Len(StepQueries(name, db, config))
            THEN /\ log' = log \o <<name>>
                 /\ pc' = AfterStep(name)
                 /\ UNCHANGED <<raised, exitCode, driver, neo4j_store>>
            ELSE /\ ExpFinally
                 /\ ExportFailed("transform")
    /\ UNCHANGED <<nonExpVars, config, store, ttl_files, file_results, clearDriver>>

apply_label_mapping              == TransformStep("label_mapping")
apply_slug_extraction            == TransformStep("slug_extraction")
apply_property_mappings          == TransformStep("property_mappings")
apply_relationship_type_mappings == TransformStep("relationship_type_mappings")
apply_reverse_relationships      == TransformStep("reverse_relationships")
apply_inclusion_flattening       == TransformStep("inclusion_flattening")
apply_camelcase_conversion       == TransformStep("camelcase_conversion")

\* main: verify_export, the finally clause and the closing messages.
ExpVerify ==
    /\ script = EXPORT /\ pc = "verify"
    /\ ExpFinally
    /\ stateRead' = stateRead \cup ReadsEarlier(db)
    /\ \E ok \in BOOLEAN :
         IF ok
         THEN /\ log' = log \o <<"verify_export", "EXPORT COMPLETE">>
              /\ Return(0)
              /\ UNCHANGED raised
         ELSE ExportFailed("verify")
    /\ UNCHANGED <<nonExpVars, db, config, store, ttl_files, file_results, stepsRun,
                   clearDriver>>

Next ==
    \/ StartRun
    \/ EnhMain
    \/ EnhLoad
    \/ EnhSummary
    \/ EnhConvert
    \/ SanLoad
    \/ SanProgramme
    \/ SanThemes
    \/ SanSubject
    \/ SanComplete
    \/ DynLoad
    \/ DynSubject
    \/ DynComplete
    \/ MergeRoot
    \/ MergeWrite
    \/ ValSyntax
    \/ ValShacl
    \/ ExpConfig
    \/ ExpClear
    \/ ExpConnect
    \/ ExpFile
    \/ ExpCommit
    \/ apply_label_mapping
    \/ apply_slug_extraction
    \/ apply_property_mappings
    \/ apply_relationship_type_mappings
    \/ apply_reverse_relationships
    \/ apply_inclusion_flattening
    \/ apply_camelcase_conversion
    \/ ExpVerify

Spec == Init /\ [][Next]_vars

(***************************************************************************)
(* camel_to_upper_snake called on its own, on every name                   *)
(***************************************************************************)
\* What no process has touched: the values Init gives to the variables that
\* the specifications below leave alone.
Untouched ==
    /\ args = NoArgs
    /\ log = <<>>
    /\ exitCode = 0
    /\ raised = {}
    /\ written = {}
    /\ executed = {}
    /\ stateRead = {}
    /\ tsFile = [exists |-> FALSE, by |-> 0]
    /\ tsFile0 = tsFile
    /\ data = NoData
    /\ subjects = <<>>
    /\ roots = <<>>
    /\ files_processed = <<>>
    /\ repo_root = <<>>
    /\ ttl_found = {}
    /\ store = {}
    /\ ttl_files = <<>>
    /\ file_results = <<>>
    /\ clearDriver = "none"

InitCall ==
    /\ Untouched
    /\ run = 0
    /\ script = "none"
    /\ pc = "call"
    /\ db = LegacyDb
    /\ config = NoConfig
    /\ stepsRun = <<>>
    /\ driver = "none"
    /\ neo4j_store = "none"
    /\ rel_type \in Names
    /\ new_type = <<>>

\* new_type = camel_to_upper_snake(rel_type)
CallCamelToUpperSnake ==
    /\ pc = "call"
    /\ new_type' = camel_to_upper_snake(rel_type)
    /\ pc' = "returned"
    /\ UNCHANGED <<run, script, args, log, exitCode, raised, written, executed, stateRead,
                   tsFile, tsFile0, convVars, mergeVars, db, config, store, ttl_files,
                   file_results, stepsRun, clearDriver, driver, neo4j_store, rel_type>>

NextCall == CallCamelToUpperSnake

SpecCall == InitCall /\ [][NextCall]_vars

(***************************************************************************)
(* _apply_camelcase_conversion called on its own, on a database holding    *)
(* relationships of any one or two types                                   *)
(***************************************************************************)
\* Relationship types: names over the letters and the underscore.
RelTypes == UNION { [1..n -> UpperChars \cup LowerChars \cup {"_"}] : n \in 1..MaxTypeLen }

\* Two nodes carrying the main label, joined by one relationship per type.
CamelDb(types) ==
    [nodes |-> { [id |-> <<U_prog, 1>>, labels |-> {"Oak", "Prog"}, props |-> NoProps],
                 [id |-> <<U_unit, 1>>, labels |-> {"Oak", "Unit"}, props |-> NoProps] },
     rels  |-> { [src |-> <<U_prog, 1>>, type |-> t, dst |-> <<U_unit, 1>>,
                  props |-> NoProps] : t \in types }]

InitCamelcase ==
    /\ Untouched
    /\ run = 1
    /\ script = EXPORT
    /\ pc = "camelcase_conversion"
    /\ \E t1 \in RelTypes, t2 \in RelTypes : db = CamelDb({t1, t2})
    /\ config \in Configs
    /\ stepsRun = <<>>
    /\ driver = "open"
    /\ neo4j_store = "open"
    /\ rel_type = <<>>
    /\ new_type = <<>>

\* The caller calls _apply_camelcase_conversion once more after it returned.
CallAgain ==
    /\ script = EXPORT /\ pc = "verify"
    /\ stepsRun = <<"camelcase_conversion">>
    /\ pc' = "camelcase_conversion"
    /\ UNCHANGED <<run, script, args, log, exitCode, raised, written, executed, stateRead,
                   tsFile, tsFile0, convVars, mergeVars, db, expVars>>

NextCamelcase ==
    \/ apply_camelcase_conversion
    \/ CallAgain

SpecCamelcase == InitCamelcase /\ [][NextCamelcase]_vars

(***************************************************************************)
(* Properties                                                              *)
(***************************************************************************)
IsPrefix(s, t) == Len(s) <= Len(t) /\ \A i \in 1..Len(s) : s[i] = t[i]

Count(s, e) == Cardinality({ i \in 1..Len(s) : s[i] = e })

NodeIds(d) == { n.id : n \in d.nodes }

\* Every occurrence of e1 in s comes before the first occurrence of e2.
AllBefore(s, e1, e2) == \A i \in 1..Len(s) : s[i] = e1 => i < IndexOf(s, e2)

\* C1: apply_all_transformations calls the seven steps once each and in the
\* order label mapping, slug extraction, property mappings, relationship type
\* mappings, reverse relationships, inclusion flattening, camelCase
\* conversion.  A step that raises ends the run with no later step and no
\* second attempt, and the database keeps what was done before the raise:
\* the failing step leaves the database it found changed by the statements it
\* completed, and the relabelling of an earlier label mapping is still there.
C1_StepsOnceInOrderNoRollback ==
    /\ [](script = EXPORT =>
            /\ IsPrefix(stepsRun, TransformationOrder)
            /\ ("EXPORT COMPLETE" \in Range(log) => stepsRun = TransformationOrder)
            /\ ("transform" \in raised => pc = "done" /\ exitCode = 1)
            /\ ("label_mapping" \in Range(log) =>
                  \A n \in db.nodes : Uri(n)[1] = "oak" => "Resource" \notin n.labels))
    /\ [][script = EXPORT /\ pc \in Range(TransformationOrder) =>
            /\ stepsRun' = Append(stepsRun, pc)
            /\ IF "transform" \in raised'
               THEN \E k \in 0..(Len(StepQueries(pc, db, config)) - 1) :
                      db' = ApplyQueries(db, Prefix(StepQueries(pc, db, config), k))
               ELSE /\ db' = ApplyQueries(db, StepQueries(pc, db, config))
                    /\ pc' = AfterStep(pc)]_vars

\* A run in which relationship type mappings, the fourth step, raised: the
\* nodes this run imported still carry the label the first step gave them.
C1_Witness ==
    /\ script = EXPORT /\ pc = "done" /\ exitCode = 1
    /\ "transform" \in raised
    /\ Len(stepsRun) = 4
    /\ \E n \in db.nodes : n.id[2] = run /\ "Oak" \in n.labels /\ n.props["unitTitle"] # NULL

\* C2 as stated: every exception raised in a run of export_to_neo4j makes the
\* process exit with a nonzero status.
C2_EveryExceptionExitsNonzero ==
    script = EXPORT /\ pc = "done" /\ raised # {} => exitCode # 0

\* C2, amended: an exception raised by configuration loading, clearing,
\* connecting, commit, driver creation, a transformation statement or
\* verification is logged as "Export failed" and the process exits with
\* status 1.  An exception raised while a TTL file is loaded or added is
\* logged as "Failed to export", that file is skipped and the loop goes on;
\* a run whose only exceptions are of this kind can end with status 0.
C2_FileFailuresSkippedOthersExit ==
    script = EXPORT =>
      /\ (raised \ {"file"} # {} =>
            /\ pc = "done" /\ exitCode = 1
            /\ Len(log) > 0 /\ log[Len(log)] = "Export failed")
      /\ ("file" \in raised <=> "failed" \in Range(file_results))
      /\ Count(log, "Failed to export") = Count(file_results, "failed")
      /\ (pc = "done" /\ exitCode = 0 => raised \subseteq {"file"})

\* The first file failed, the second was exported, and the run ended with
\* status 0.
C2_Witness ==
    /\ script = EXPORT /\ pc = "done" /\ exitCode = 0
    /\ raised = {"file"}
    /\ file_results = <<"failed", "ok">>
    /\ "EXPORT COMPLETE" \in Range(log)

C5_DryRunWritesNothing ==
    script = ENHANCED /\ args.dry_run /\ "loaded" \in Range(log) =>
      /\ written = {}
      /\ tsFile = tsFile0
      /\ pc \in {"enh_summary", "done"}
      /\ (pc = "done" => exitCode = 0)

\* A dry run that loaded the sample data and returned.
C5_Witness ==
    /\ script = ENHANCED /\ args.dry_run /\ pc = "done"
    /\ "loaded" \in Range(log) /\ "DRY RUN" \in Range(log)
    /\ exitCode = 0

\* C6: with --api and --sample together, or with --incremental and no --api,
\* main of the enhanced converter returns 1 before it loads anything and
\* without writing a file.
C6_InvalidFlagsRejected ==
    script = ENHANCED /\ ((args.api /\ args.sample) \/ (args.incremental /\ ~args.api)) =>
      /\ pc \in {"main", "done"}
      /\ "Loading data" \notin Range(log)
      /\ raised = {}
      /\ written = {}
      /\ tsFile = tsFile0
      /\ (pc = "done" => exitCode = 1)

\* --incremental without --api: main has returned 1.
C6_Witness ==
    /\ script = ENHANCED /\ args.incremental /\ ~args.api /\ pc = "done"
    /\ exitCode = 1
    /\ log = <<"Error: invalid flags">>

\* C7: the run-timestamp file changes only in a step that ends a run of the
\* enhanced converter with status 0, the run having used --api, not being a
\* dry run, and having loaded the data and reached "Conversion complete";
\* a run that returned 1 has left the file as it found it.
C7_TimestampOnlyAfterApiSuccess ==
    /\ [][tsFile' # tsFile =>
            /\ script = ENHANCED /\ args.api /\ ~args.dry_run
            /\ "loaded" \in Range(log)
            /\ "Conversion complete" \in Range(log')
            /\ pc' = "done" /\ exitCode' = 0]_vars
    /\ [](pc = "done" /\ exitCode = 1 => tsFile = tsFile0)

\* A run with --api, not a dry run, that returned 1 on the data-loading error.
C7_Witness ==
    /\ script = ENHANCED /\ args.api /\ ~args.dry_run /\ pc = "done"
    /\ exitCode = 1
    /\ "load" \in raised
    /\ tsFile = tsFile0

\* C8 as stated: in every run only functions of the script that was started
\* (and of external libraries) are executed.
C8_NoScriptCallsAnother ==
    script \in Scripts => executed \subseteq {script}

\* C8, amended: a run of sanity_to_ttl_dynamic_subjects that generates the
\* files of a subject executes functions of sanity_to_ttl, which
\* generate_subject_files imports; a run of any other entry point executes
\* only functions of its own script.
C8_OnlyDynamicCallsSanity ==
    script \in Scripts =>
      /\ script \in executed
      /\ executed \subseteq (IF script = DYNAMIC THEN {DYNAMIC, SANITY} ELSE {script})
      /\ (script = DYNAMIC /\ "convert" \in Range(log) => SANITY \in executed)

\* A run of sanity_to_ttl_dynamic_subjects that wrote the files of a subject
\* through the functions of sanity_to_ttl.
C8_Witness ==
    /\ script = DYNAMIC
    /\ SANITY \in executed
    /\ written # {}
    /\ pc = "done" /\ exitCode = 0

\* C9 as stated: no run reads state that an earlier run wrote.
C9_NoStateAcrossRuns ==
    stateRead = {}

\* C9, amended: no run reads the run-timestamp file, and none writes it, the
\* API fetch that both depend on being a stub that raises; the converters,
\* merge_ttls and validation read nothing an earlier run wrote; a run of
\* export_to_neo4j runs its statements against the nodes and relationships
\* that earlier runs left in the Neo4j database.
C9_OnlyExportReadsEarlierRuns ==
    /\ TIMESTAMP_FILE \notin stateRead
    /\ ~tsFile.exists
    /\ (stateRead # {} => script = EXPORT /\ stateRead = {NEO4J_DB})

\* A second run, of export_to_neo4j, that ran a statement against nodes the
\* first run created.
C9_Witness ==
    /\ script = EXPORT /\ run = 2
    /\ NEO4J_DB \in stateRead
    /\ \E n \in db.nodes : n.id[2] = 1

\* C10: in every script the completion message comes only after the input
\* was loaded, the transformation was performed and the output was written,
\* in that order.
C10_CompletionAfterOutput ==
    /\ script \in {SANITY, ENHANCED} /\ "Conversion complete" \in Range(log) =>
         /\ Before(log, "loaded", "convert")
         /\ Before(log, "convert", "write_ttl_file")
         /\ Before(log, "write_ttl_file", "Conversion complete")
         /\ written # {}
    /\ script = DYNAMIC /\ "All subjects processed" \in Range(log) =>
         /\ Before(log, "loaded", "convert")
         /\ Before(log, "convert", "write_ttl_file")
         /\ Before(log, "write_ttl_file", "All subjects processed")
         /\ written # {}
    /\ script = MERGE /\ "Successfully merged" \in Range(log) =>
         /\ AllBefore(log, "parse", "check_imports")
         /\ Before(log, "check_imports", "serialize")
         /\ Before(log, "serialize", "Successfully merged")
         /\ OUTPUT_FILE \in written
    /\ script = VALIDATE /\ "All validations passed" \in Range(log) =>
         /\ Before(log, "check_syntax", "combined")
         /\ Before(log, "combined", "validate")
         /\ Before(log, "validate", "All validations passed")
    /\ script = EXPORT /\ "EXPORT COMPLETE" \in Range(log) =>
         /\ AllBefore(log, "add", "commit")
         /\ Before(log, "commit", "camelcase_conversion")
         /\ Before(log, "camelcase_conversion", "EXPORT COMPLETE")

\* C11: merge_ttls parses into the merged graph exactly the .ttl files found
\* under the existing root directories whose path has no component named
\* "versions": only such files are parsed, each once; when both roots have
\* been scanned every such file has been parsed; and a missing root is
\* reported and skipped, the run going on to the next root (a run that
\* reported one and still failed did so because a file did not parse or the
\* output could not be written).
C11_MergesExactlyUnversioned ==
    script = MERGE =>
      /\ \A f \in Range(files_processed) : f \in ttl_found /\ "versions" \notin Range(f)
      /\ Cardinality(Range(files_processed)) = Len(files_processed)
      /\ (roots = <<>> =>
            \A f \in ttl_found : "versions" \notin Range(f) => f \in Range(files_processed))
      /\ Count(log, "Directory not found") + Len(roots) <= Len(ROOT_DIRS)
      /\ ("Directory not found" \in Range(log) /\ pc = "done" /\ exitCode = 1 => raised # {})

\* A merge that found one root missing, skipped a file under versions/, parsed
\* the other file of the existing root and wrote the output.
C11_Witness ==
    /\ script = MERGE /\ pc = "done" /\ exitCode = 0
    /\ "Directory not found" \in Range(log)
    /\ Len(files_processed) = 1
    /\ \E f \in ttl_found : "versions" \in Range(f)
    /\ OUTPUT_FILE \in written

\* C12: when a file does not parse in merge_ttls the exception ends the run
\* with a nonzero status, nothing is serialized to /tmp/combined-data.ttl and
\* the success message is not printed; the output file is written, and the
\* success message printed, only by a run that scanned both roots and parsed
\* every file it did not skip.
C12_ParseFailureAbortsMerge ==
    script = MERGE =>
      /\ ("parse" \in raised =>
            /\ pc = "done" /\ exitCode = 1
            /\ OUTPUT_FILE \notin written
            /\ "serialize" \notin Range(log)
            /\ "Successfully merged" \notin Range(log))
      /\ (OUTPUT_FILE \in written =>
            /\ raised = {}
            /\ roots = <<>>
            /\ \A f \in ttl_found : "versions" \notin Range(f) => f \in Range(files_processed))
      /\ ("Successfully merged" \in Range(log) => OUTPUT_FILE \in written)

\* The file of the first root was parsed, the file of the second root was
\* not: the run ended with status 1 and wrote nothing.
C12_Witness ==
    /\ script = MERGE /\ pc = "done" /\ exitCode = 1
    /\ raised = {"parse"}
    /\ Len(files_processed) = 1
    /\ Cardinality({ f \in ttl_found : "versions" \notin Range(f) }) = 2
    /\ written = {}

\* C13: validation.py combines the targets and calls the SHACL validator only
\* after check_syntax accepted every validation target; when a target fails
\* the syntax check the process exits with status 1, the combined temp file
\* was not created and the validator was not called.
C13_ShaclOnlyAfterSyntax ==
    script = VALIDATE =>
      /\ ("Syntax error" \in Range(log) =>
            /\ pc = "done" /\ exitCode = 1
            /\ TEMP_COMBINED \notin written
            /\ "combined" \notin Range(log)
            /\ "validate" \notin Range(log))
      /\ (TEMP_COMBINED \in written \/ "validate" \in Range(log) \/ pc = "val_shacl" =>
            /\ Count(log, "check_syntax") = Len(VALIDATION_TARGETS)
            /\ "Syntax error" \notin Range(log))
      /\ ("combined" \in Range(log) => AllBefore(log, "check_syntax", "combined"))
      /\ ("validate" \in Range(log) => AllBefore(log, "check_syntax", "validate"))

\* The third target failed the syntax check: the later targets were not
\* checked and the run ended with status 1 with nothing written.
C13_Witness ==
    /\ script = VALIDATE /\ pc = "done" /\ exitCode = 1
    /\ Count(log, "check_syntax") = 3
    /\ "Syntax error" \in Range(log)
    /\ written = {}

\* C14: validation.py exits with status 0 exactly when every validation
\* target parsed and the SHACL validation of the combined dataset conformed;
\* after a syntax error, a non-conforming result or an exception from
\* combining or validating it exits with a nonzero status.
C14_ExitZeroIffAllValid ==
    script = VALIDATE /\ pc = "done" =>
      /\ (exitCode = 0 <=>
            /\ Count(log, "check_syntax") = Len(VALIDATION_TARGETS)
            /\ "Syntax error" \notin Range(log)
            /\ "Valid" \in Range(log))
      /\ ("Syntax error" \in Range(log) \/ "Validation errors" \in Range(log) \/ raised # {}
            => exitCode # 0)
      /\ exitCode \in {0, 1}

\* Every target parsed and the combined dataset did not conform: status 1.
C14_Witness ==
    /\ script = VALIDATE /\ pc = "done" /\ exitCode = 1
    /\ Count(log, "check_syntax") = Len(VALIDATION_TARGETS)
    /\ "Validation errors" \in Range(log)
    /\ raised = {}

\* C15: camel_to_upper_snake(name) is name in upper case with exactly one
\* underscore before every upper-case letter that is not the first character:
\* the i-th letter of name, upper-cased, stands in the result after as many
\* underscores as there are upper-case letters among the characters 2..i of
\* name, an underscore directly before it when it is one of them, and the
\* result holds nothing else.
C15_UpperSnakeOfName ==
    pc = "returned" =>
      LET upperOf(c) == CASE c = "a" -> "A" [] c = "b" -> "B" [] c = "A" -> "A" [] c = "B" -> "B"
          breaks(i)  == { j \in 2..i : rel_type[j] \in {"A", "B"} }
          pos(i)     == i + Cardinality(breaks(i))
      IN /\ Len(new_type) = Len(rel_type) + Cardinality(breaks(Len(rel_type)))
         /\ \A i \in 1..Len(rel_type) :
              /\ new_type[pos(i)] = upperOf(rel_type[i])
              /\ (i \in breaks(i) => new_type[pos(i) - 1] = "_")
         /\ Count(new_type, "_") = Cardinality(breaks(Len(rel_type)))

\* aBaB was converted to A_BA_B.
C15_Witness ==
    /\ pc = "returned"
    /\ rel_type = <<"a", "B", "a", "B">>
    /\ new_type = <<"A", "_", "B", "A", "_", "B">>

\* C16: when _apply_camelcase_conversion has returned, the type of every
\* relationship either has no lower-case letter or is a target value of
\* relationship_type_mappings; the call leaves every relationship whose type
\* is such a target as it was; and a second call changes nothing in the
\* database.
C16_CamelcasePostcondition ==
    /\ [](script = EXPORT /\ pc = "verify" =>
            \A r \in db.rels :
              \/ \A i \in 1..Len(r.type) : r.type[i] \notin {"a", "b"}
              \/ \E i \in 1..Len(config.relationship_type_mappings) :
                   r.type = config.relationship_type_mappings[i][2])
    /\ [][script = EXPORT /\ pc = "camelcase_conversion" =>
            /\ (pc' = "verify" =>
                  \A r \in db.rels :
                    (\E i \in 1..Len(config.relationship_type_mappings) :
                       r.type = config.relationship_type_mappings[i][2])
                    => r \in db'.rels)
            /\ (Len(stepsRun) >= 1 => db' = db)]_vars

\* Two calls have returned on a database that held a relationship of the
\* mapped target type bb, which is still there, beside one in upper case.
C16_Witness ==
    /\ script = EXPORT /\ pc = "verify"
    /\ Len(stepsRun) = 2
    /\ config = FullConfig
    /\ { r.type : r \in db.rels } = { T_bb, <<"A", "_", "B">> }

\* C17: in a run of export_to_neo4j, the files are attempted one by one in
\* the order of discovery; a file whose loading or adding raised is logged
\* and the loop goes on with the next one; commit is called at most once,
\* only when every discovered file has been attempted and no transformation
\* has run; a transformation runs only after the one commit has returned; and
\* a run that got past the loop has called commit exactly once.
C17_FilesInOrderThenOneCommit ==
    /\ [](script = EXPORT =>
            LET commitCalls == Count(log, "commit")
                                 + (IF "commit" \in raised THEN 1 ELSE 0)
            IN /\ Len(file_results) <= Len(ttl_files)
               /\ Count(log, "Failed to export") = Count(file_results, "failed")
               /\ commitCalls <= 1
               /\ (commitCalls = 1 => Len(file_results) = Len(ttl_files))
               /\ (stepsRun # <<>> => Count(log, "commit") = 1)
               /\ (pc \in Range(TransformationOrder) \cup {"verify"} => commitCalls = 1)
               /\ (pc = "done" /\ "Connected" \in Range(log) => commitCalls = 1))
    /\ [][script = EXPORT /\ script' = EXPORT =>
            /\ (Len(file_results') = Len(file_results) + 1 =>
                  /\ Len(file_results) < Len(ttl_files)
                  /\ pc' = "exp_files"
                  /\ file_results' = Append(file_results, file_results'[Len(file_results')])
                  /\ store' \ store
                       \subseteq Range(load_and_filter(ttl_files[Len(file_results) + 1]))
                  /\ Count(log', "commit") = 0 /\ "commit" \notin raised')
            /\ (Count(log', "commit") > Count(log, "commit")
                  \/ ("commit" \in raised' /\ "commit" \notin raised) =>
                  /\ Len(file_results) = Len(ttl_files)
                  /\ stepsRun = <<>>
                  /\ Count(log, "commit") = 0)
            /\ (stepsRun' # stepsRun /\ stepsRun' # <<>> => Count(log, "commit") = 1)]_vars

\* The first of two files failed, the second was added, the one commit
\* returned and every transformation ran.
C17_Witness ==
    /\ script = EXPORT /\ pc = "verify"
    /\ file_results = <<"failed", "ok">>
    /\ Count(log, "Failed to export") = 1
    /\ Count(log, "commit") = 1
    /\ stepsRun = TransformationOrder
====
